---- MODULE Spec2Model ----
(***************************************************************************)
(* Session-based authentication with role-based access control.            *)
(*                                                                         *)
(* The model follows the NestJS backend: AuthController, AuthService,      *)
(* SessionService (a TypeORM table of sessions), the AuthGuard and the     *)
(* RolesGuard of auth/roles.guard.ts, and the in-memory UsersService the   *)
(* repository documents twice (part_011 and INTERVIEW_TEST.md).            *)
(*                                                                         *)
(* A request is handled by an async function: every step below runs from   *)
(* one await to the next, so two requests interleave exactly at the awaits *)
(* of the code.  A call of an in-memory UsersService method computes its   *)
(* result when it is called; a call of the session repository takes effect *)
(* in the step that follows the call.                                      *)
(***************************************************************************)
EXTENDS Integers, Sequences, FiniteSets, TLC

\* The concurrent requests in flight, and the inputs a client may send.
Procs == {"req1", "req2"}
Emails == {"a@x.com", "b@x.com"}
Passwords == {"secret1", "secret2"}
Salts == {"saltA"}

\* The two UsersService sources of the repository.
Impls == {"part_011", "INTERVIEW_TEST"}

\* UserRole
ADMIN == "admin"
USER == "user"
UserRole == {ADMIN, USER}

\* The session lifetime, 24 * 60 * 60 * 1000 ms, in clock ticks of 24 hours.
TTL == 1

\* Bounds of the model: the last clock tick and the number of requests served.
MaxTime == 2
MaxRequests == 3

\* Bound of UnitSpec: the number of users in a store it starts from.
MaxUnitUsers == 2

\* request.cookies?.sessionId of a request without the cookie, and a
\* sessionId no createSession ever returned.
NoCookie == 0
ForgedSessionId == -1

\* A lookup that found nothing (null / undefined).
NoUser == 0

VARIABLES
  usersImpl,      \* which UsersService source is deployed
  users,          \* UsersService.users: the array of User, in push order
  userIdCounter,  \* UsersService.userIdCounter
  sessions,       \* the rows of the sessions table
  now,            \* the clock read by Date.now() and new Date()
  nextUuid,       \* the next value uuidv4() returns
  started,        \* the number of requests received so far
  cookies,        \* the sessionId cookies the responses have set so far
  superseded,     \* history: sessionIds removed by createSession's delete
  loggedOut,      \* history: sessionIds a logout has answered with success
  pc,             \* where each request stands
  req             \* the locals of each request

vars == <<usersImpl, users, userIdCounter, sessions, now, nextUuid, started,
          cookies, superseded, loggedOut, pc, req>>

----------------------------------------------------------------------------
(* Password hasher: bcrypt.hash and bcrypt.compare.                        *)

\* bcrypt.hash(password, 12) with the salt it drew
bcryptHash(password, salt) == [salt |-> salt, digest |-> <<salt, password>>]

\* bcrypt.compare(password, hashed)
bcryptCompare(password, hashed) == hashed.digest = <<hashed.salt, password>>

----------------------------------------------------------------------------
(* UsersService                                                            *)

UserIds(us) == {us[i].id : i \in 1..Len(us)}

\* users.find(user => user.email === email): the id of the first match
findByEmail(us, email) ==
  LET hits == {i \in 1..Len(us) : us[i].email = email}
  IN IF hits = {} THEN NoUser
     ELSE us[CHOOSE i \in hits : \A j \in hits : i <= j].id

\* Mutant of findById: the predicate is dropped
findByIdFirst(us, id) == IF us = <<>> THEN NoUser ELSE us[1].id

\* users.find(user => user.id === id)
findById(us, id) ==
  LET hits == {i \in 1..Len(us) : us[i].id = id}
  IN IF hits = {} THEN NoUser
     ELSE us[CHOOSE i \in hits : \A j \in hits : i <= j].id

\* the User object a lookup returned
UserOf(us, id) == us[CHOOSE i \in 1..Len(us) : us[i].id = id]

\* Mutant of FirstUserRole: the emptiness test is off by one
FirstTwoUsersRole(us) == IF Len(us) <= 1 THEN ADMIN ELSE USER

\* First user becomes admin
FirstUserRole(us) == IF Len(us) = 0 THEN ADMIN ELSE USER

\* validatePassword as AuthService.login calls it
validatePassword(password, hashed) == bcryptCompare(password, hashed)

----------------------------------------------------------------------------
(* SessionService over the sessions table                                  *)

\* sessionRepository.findOne({ where: { id: sessionId } })
findOne(ss, sessionId) == {s \in ss : s.id = sessionId}

\* Mutant of Expired: no session ever expires
ExpiredNever(s, t) == FALSE

\* Mutant of Expired: every session has expired
ExpiredAlways(s, t) == TRUE

\* session.expiresAt < new Date()
Expired(s, t) == s.expiresAt < t

\* Mutant of deleteByUserId: the criterion is dropped
deleteEveryUser(ss, userId) == {}

\* sessionRepository.delete({ userId })
deleteByUserId(ss, userId) == {s \in ss : s.userId # userId}

\* Mutant of deleteById: no row is removed
deleteByIdNothing(ss, sessionId) == ss

\* sessionRepository.delete({ id: sessionId })
deleteById(ss, sessionId) == {s \in ss : s.id # sessionId}

\* sessionRepository.save(session): the primary key is id
save(ss, s) == {x \in ss : x.id # s.id} \cup {s}

\* What getSession returns for sessionId at time t: the rows it would return
getSession(ss, sessionId, t) == {s \in findOne(ss, sessionId) : ~Expired(s, t)}

\* Mutant of deleteExpired: a session that expires now is removed as well
deleteExpiredOrDue(ss, t) == {s \in ss : ~(s.expiresAt <= t)}

\* sessionRepository.delete({ expiresAt: LessThan(new Date()) })
deleteExpired(ss, t) == {s \in ss : ~(s.expiresAt < t)}

\* The value of a call of an async method that is not awaited: a Promise,
\* whatever the method will return
Promise(rows) == [promise |-> TRUE, rows |-> rows]

\* !sessionData: a Promise is an object, and an object is never falsy
Falsy(v) == ~v.promise /\ v.rows = {}

\* Mutant of validateSession: the first user stands for every session
validateSessionFirstUser(ss, us, sessionId, t) ==
  IF getSession(ss, sessionId, t) = {} \/ us = <<>> THEN NoUser ELSE us[1].id

\* AuthService.validateSession: the id of the user the token resolves to
validateSession(ss, us, sessionId, t) ==
  IF getSession(ss, sessionId, t) = {} THEN NoUser
  ELSE findById(us, (CHOOSE s \in getSession(ss, sessionId, t) : TRUE).userId)

----------------------------------------------------------------------------
(* Responses                                                               *)

\* a response field that is absent (undefined)
NoHash == [salt |-> "", digest |-> <<>>]
NoBody == [id |-> NoUser, email |-> "", role |-> "", password |-> NoHash]

\* { id: user.id, email: user.email, role: user.role }
Body(u) == [id |-> u.id, email |-> u.email, role |-> u.role, password |-> NoHash]

\* { ...user, password: undefined }
WithoutPassword(u) == Body(u)

\* the User object itself, as a response body
WholeUser(u) == [id |-> u.id, email |-> u.email, role |-> u.role, password |-> u.password]

Reply(status, message, body, cookie) ==
  [status |-> status, message |-> message, body |-> body, list |-> <<>>,
   cookie |-> cookie]

NoRes == Reply(0, "", NoBody, NoCookie)

\* new ConflictException('Email already exists')
EmailExists == Reply(409, "Email already exists", NoBody, NoCookie)
\* new UnauthorizedException('Invalid credentials')
InvalidCredentials == Reply(401, "Invalid credentials", NoBody, NoCookie)
\* new UnauthorizedException('No session found')
NoSession == Reply(401, "No session found", NoBody, NoCookie)
\* new UnauthorizedException('Invalid session')
InvalidSession == Reply(401, "Invalid session", NoBody, NoCookie)
\* the ForbiddenExceptions of RolesGuard
NotAuthenticated == Reply(403, "Not authenticated", NoBody, NoCookie)
UserNotFound403 == Reply(403, "User not found", NoBody, NoCookie)
InsufficientPermissions == Reply(403, "Insufficient permissions", NoBody, NoCookie)
\* new NotFoundException('User not found')
NotFound == Reply(404, "User not found", NoBody, NoCookie)
\* return { message: 'Logout successful' }
LogoutSuccessful == Reply(201, "Logout successful", NoBody, NoCookie)

----------------------------------------------------------------------------
(* Requests                                                                *)

Routes == {"register", "login", "logout", "me", "admin_users", "admin_role"}

\* @UseGuards(AuthGuard, RolesGuard) @Roles(UserRole.ADMIN)
AdminRoutes == {"admin_users", "admin_role"}

\* The 'roles' metadata of a route's handler: <<>> when @Roles is absent
RequiredRoles(route) == IF route \in AdminRoutes THEN <<{ADMIN}>> ELSE <<>>

\* request.session: main.ts installs cookieParser only, so it is undefined
RequestSessionUserId(r) == NoUser

\* The locals of a request that has read nothing yet
Idle ==
  [route |-> "", email |-> "", password |-> "", cookie |-> NoCookie,
   user |-> NoUser, role |-> "", created |-> NoUser, sessionId |-> NoCookie,
   expiresAt |-> 0, requiredRoles |-> <<>>, id |-> NoUser, newRole |-> "",
   loginUser |-> NoBody, res |-> NoRes]

Init ==
  /\ usersImpl \in Impls
  /\ users = <<>>
  /\ userIdCounter = 1
  /\ sessions = {}
  /\ now = 0
  /\ nextUuid = 1
  /\ started = 0
  /\ cookies = {}
  /\ superseded = {}
  /\ loggedOut = {}
  /\ pc = [p \in Procs |-> "idle"]
  /\ req = [p \in Procs |-> Idle]

----------------------------------------------------------------------------
(* POST /auth/register and POST /auth/login                                *)

\* A slot takes a request when it serves none, within the bound of the model;
\* the second slot takes the requests that arrive while the first is serving
Receive(p) ==
  /\ pc[p] \in {"idle", "done"}
  /\ p = "req2" => pc["req1"] \notin {"idle", "done"}
  /\ started < MaxRequests
  /\ started' = started + 1

\* A request ends with a response or an exception, which the slot keeps
Finish(p, res) ==
  /\ pc' = [pc EXCEPT ![p] = "done"]
  /\ req' = [req EXCEPT ![p].res = res]

\* AuthController.register calls AuthService.register, which calls findByEmail
StartRegister(p, email) ==
  /\ Receive(p)
  /\ req' = [req EXCEPT ![p] = [Idle EXCEPT !.route = "register",
                                            !.email = email,
                                            !.user = findByEmail(users, email)]]
  /\ pc' = [pc EXCEPT ![p] = "reg_check"]
  /\ UNCHANGED <<loggedOut, usersImpl, users, userIdCounter, sessions, now, nextUuid,
                 cookies, superseded>>

\* The role UsersService.create decides before bcrypt.hash (INTERVIEW_TEST.md)
RoleBeforeHash(impl, us) == IF impl = "INTERVIEW_TEST" THEN FirstUserRole(us) ELSE ""

\* The role UsersService.create gives the user it pushes
RoleAtPush(impl, us, decided) == IF impl = "part_011" THEN FirstUserRole(us) ELSE decided

\* Mutant of RegisterConflict: register without its test
RegisterConflictNever(existingUser) == FALSE

\* if (existingUser)
RegisterConflict(existingUser) == existingUser # NoUser

\* AuthService.register after findByEmail: throw, or enter UsersService.create
\* and run it up to its await of bcrypt.hash
Register_existing(p) ==
  /\ pc[p] = "reg_check"
  /\ IF RegisterConflict(req[p].user)
     THEN Finish(p, EmailExists)
     ELSE /\ req' = [req EXCEPT ![p].role = RoleBeforeHash(usersImpl, users)]
          /\ pc' = [pc EXCEPT ![p] = "reg_hash"]
  /\ UNCHANGED <<loggedOut, usersImpl, users, userIdCounter, sessions, now, nextUuid,
                 started, cookies, superseded>>

\* Mutant of push: the array is replaced by the new user
pushReplacing(us, user) == <<user>>

\* this.users.push(user)
push(us, user) == Append(us, user)

\* UsersService.create after bcrypt.hash(password, 12): push the user; the
\* controller then calls AuthService.login, which calls findByEmail
UsersService_create(p) ==
  /\ pc[p] = "reg_hash"
  /\ \E password \in Passwords, salt \in Salts :
       LET user == [id |-> userIdCounter,
                    email |-> req[p].email,
                    password |-> bcryptHash(password, salt),
                    role |-> RoleAtPush(usersImpl, users, req[p].role),
                    createdAt |-> now]
       IN /\ users' = push(users, user)
          /\ userIdCounter' = userIdCounter + 1
          /\ req' = [req EXCEPT ![p].password = password,
                                ![p].created = user.id,
                                ![p].role = user.role,
                                ![p].user = findByEmail(push(users, user), req[p].email)]
  /\ pc' = [pc EXCEPT ![p] = "login_verify"]
  /\ UNCHANGED <<loggedOut, usersImpl, sessions, now, nextUuid, started, cookies, superseded>>

\* AuthController.login calls AuthService.login, which calls findByEmail
StartLogin(p, email) ==
  /\ Receive(p)
  /\ req' = [req EXCEPT ![p] = [Idle EXCEPT !.route = "login",
                                            !.email = email,
                                            !.user = findByEmail(users, email)]]
  /\ pc' = [pc EXCEPT ![p] = "login_check"]
  /\ UNCHANGED <<loggedOut, usersImpl, users, userIdCounter, sessions, now, nextUuid,
                 cookies, superseded>>

\* Mutant of LoginRejected: the password is not verified
LoginRejectedUnknownOnly(us, userId, password) == userId = NoUser

\* !user || !await this.usersService.validatePassword(password, user.password)
LoginRejected(us, userId, password) ==
  IF userId = NoUser THEN TRUE
  ELSE ~validatePassword(password, UserOf(us, userId).password)

\* Mutant of LoginError: an unknown email is told apart from a wrong password
LoginErrorEnumerating(us, userId, password) ==
  IF userId = NoUser THEN Reply(401, "User not found", NoBody, NoCookie)
  ELSE InvalidCredentials

\* What AuthService.login throws when it rejects
LoginError(us, userId, password) == InvalidCredentials

\* AuthService.login after findByEmail: the password of the request body is
\* read only when the user exists
AuthService_login(p) ==
  /\ pc[p] = "login_check"
  /\ IF req[p].user = NoUser
     THEN Finish(p, LoginError(users, req[p].user, req[p].password))
     ELSE /\ \E password \in Passwords : req' = [req EXCEPT ![p].password = password]
          /\ pc' = [pc EXCEPT ![p] = "login_verify"]
  /\ UNCHANGED <<loggedOut, usersImpl, users, userIdCounter, sessions, now, nextUuid,
                 started, cookies, superseded>>

\* AuthService.login after validatePassword: throw, or call createSession,
\* which issues delete({ userId })
AuthService_login_verified(p) ==
  /\ pc[p] = "login_verify"
  /\ IF LoginRejected(users, req[p].user, req[p].password)
     THEN Finish(p, LoginError(users, req[p].user, req[p].password))
     ELSE /\ pc' = [pc EXCEPT ![p] = "cs_delete"]
          /\ UNCHANGED req
  /\ UNCHANGED <<loggedOut, usersImpl, users, userIdCounter, sessions, now, nextUuid,
                 started, cookies, superseded>>

\* Mutant of RemoveExisting: createSession without its delete
KeepExisting(ss, userId) == ss

\* The rows left when createSession has removed the user's existing sessions
RemoveExisting(ss, userId) == deleteByUserId(ss, userId)

\* createSession: the delete takes effect; then uuidv4() and Date.now() + 24h,
\* and save(session) is issued
createSession_delete(p) ==
  /\ pc[p] = "cs_delete"
  /\ sessions' = RemoveExisting(sessions, req[p].user)
  /\ superseded' = superseded \cup {s.id : s \in sessions \ sessions'}
  /\ req' = [req EXCEPT ![p].sessionId = nextUuid, ![p].expiresAt = now + TTL]
  /\ nextUuid' = nextUuid + 1
  /\ pc' = [pc EXCEPT ![p] = "cs_insert"]
  /\ UNCHANGED <<loggedOut, usersImpl, users, userIdCounter, now, started, cookies>>

\* Mutant of LoginBody: the body is the first user
LoginBodyFirstUser(us, r) == Body(us[1])

\* The body of the register and login responses
LoginBody(us, r) ==
  IF r.route = "register" THEN Body(UserOf(us, r.created)) ELSE Body(UserOf(us, r.user))

\* return { user, sessionId } of AuthService.login: the User findByEmail found
LoginResult(us, userId) == WholeUser(UserOf(us, userId))

\* createSession: the save takes effect and AuthService.login returns; the
\* controller sets the cookie
createSession_save(p) ==
  /\ pc[p] = "cs_insert"
  /\ sessions' = save(sessions, [id |-> req[p].sessionId,
                                 userId |-> req[p].user,
                                 expiresAt |-> req[p].expiresAt,
                                 createdAt |-> now])
  /\ cookies' = cookies \cup {req[p].sessionId}
  /\ pc' = [pc EXCEPT ![p] = "done"]
  /\ req' = [req EXCEPT
               ![p].loginUser = LoginResult(users, req[p].user),
               ![p].res = Reply(201,
                                IF req[p].route = "register"
                                THEN "User registered successfully"
                                ELSE "Login successful",
                                LoginBody(users, req[p]), req[p].sessionId)]
  /\ UNCHANGED <<loggedOut, usersImpl, users, userIdCounter, now, nextUuid, started, superseded>>

----------------------------------------------------------------------------
(* The guarded routes: AuthGuard, RolesGuard, then the handler             *)

GuardedRoutes == {"logout", "me", "admin_users", "admin_role"}

\* What a client can put in the sessionId cookie
CookieValues == cookies \cup {NoCookie, ForgedSessionId}

\* The :id a client can put in PATCH /admin/users/:id/role
ParamIds == 1..userIdCounter

\* AuthGuard.canActivate up to its await: no cookie throws at once, otherwise
\* validateSession calls getSession, which issues findOne.  The request is
\* routed to a handler, whose 'roles' metadata the reflector will return
StartGuarded(p, route, cookie) ==
  /\ Receive(p)
  /\ LET r == [Idle EXCEPT !.route = route, !.cookie = cookie,
                           !.requiredRoles = RequiredRoles(route)]
     IN IF cookie = NoCookie
        THEN /\ req' = [req EXCEPT ![p] = [r EXCEPT !.res = NoSession]]
             /\ pc' = [pc EXCEPT ![p] = "done"]
        ELSE /\ req' = [req EXCEPT ![p] = r]
             /\ pc' = [pc EXCEPT ![p] = "ag_find"]
  /\ UNCHANGED <<loggedOut, usersImpl, users, userIdCounter, sessions, now, nextUuid,
                 cookies, superseded>>

\* Mutant of AuthGuardError: the message of the missing cookie is reused
AuthGuardErrorNoSession(userId) == NoSession

\* What AuthGuard throws when validateSession returned null
AuthGuardError(userId) == InvalidSession

\* getSession after findOne: absent, expired (delete is issued), or returned
\* to validateSession, which calls findById
getSession_findOne(p) ==
  /\ pc[p] = "ag_find"
  /\ LET found == findOne(sessions, req[p].cookie)
     IN IF found = {}
        THEN Finish(p, AuthGuardError(NoUser))
        ELSE IF getSession(sessions, req[p].cookie, now) = {}
        THEN /\ pc' = [pc EXCEPT ![p] = "ag_purge"]
             /\ UNCHANGED req
        ELSE /\ req' = [req EXCEPT ![p].user =
                          validateSession(sessions, users, req[p].cookie, now)]
             /\ pc' = [pc EXCEPT ![p] = "ag_user"]
  /\ UNCHANGED <<loggedOut, usersImpl, users, userIdCounter, sessions, now, nextUuid,
                 started, cookies, superseded>>

\* Mutant of PurgeExpired: every row is removed
PurgeEverySession(ss, sessionId) == {}

\* await this.sessionRepository.delete({ id: sessionId }) of getSession
PurgeExpired(ss, sessionId) == deleteById(ss, sessionId)

\* getSession: the delete of the expired row takes effect; null is returned
getSession_purge(p) ==
  /\ pc[p] = "ag_purge"
  /\ sessions' = PurgeExpired(sessions, req[p].cookie)
  /\ Finish(p, AuthGuardError(NoUser))
  /\ UNCHANGED <<loggedOut, usersImpl, users, userIdCounter, now, nextUuid, started,
                 cookies, superseded>>

\* Mutant of AfterAuthGuard: the handler is entered without the RolesGuard
AfterAuthGuardHandler(route) == "handler"

\* @UseGuards(AuthGuard, RolesGuard): the guards run in the order declared,
\* and the handler after the last of them
AfterAuthGuard(route) == IF route \in AdminRoutes THEN "rg" ELSE "handler"

\* AuthGuard.canActivate after validateSession: throw, or request.user = user
AuthGuard_canActivate(p) ==
  /\ pc[p] = "ag_user"
  /\ IF req[p].user = NoUser
     THEN Finish(p, AuthGuardError(req[p].user))
     ELSE /\ pc' = [pc EXCEPT ![p] = AfterAuthGuard(req[p].route)]
          /\ UNCHANGED req
  /\ UNCHANGED <<loggedOut, usersImpl, users, userIdCounter, sessions, now, nextUuid,
                 started, cookies, superseded>>

\* RolesGuard.canActivate: NoRes when it returns true, else what it throws
RolesGuardOutcome(us, requiredRoles, sessionUserId) ==
  IF requiredRoles = <<>> THEN NoRes
  ELSE IF sessionUserId = NoUser THEN NotAuthenticated
  ELSE IF findById(us, sessionUserId) = NoUser THEN UserNotFound403
  ELSE IF UserOf(us, sessionUserId).role \notin requiredRoles[1]
       THEN InsufficientPermissions
  ELSE NoRes

\* request.user when RolesGuard has returned true: it assigns the user it
\* looked up, unless no roles are declared and it returned at once
RolesGuardUser(r) ==
  IF r.requiredRoles = <<>> THEN r.user ELSE RequestSessionUserId(r)

RolesGuard_canActivate(p) ==
  /\ pc[p] = "rg"
  /\ LET out == RolesGuardOutcome(users, req[p].requiredRoles,
                                  RequestSessionUserId(req[p]))
     IN IF out # NoRes
        THEN Finish(p, out)
        ELSE /\ pc' = [pc EXCEPT ![p] = "handler"]
             /\ req' = [req EXCEPT ![p].user = RolesGuardUser(req[p])]
  /\ UNCHANGED <<loggedOut, usersImpl, users, userIdCounter, sessions, now, nextUuid,
                 started, cookies, superseded>>

\* UsersService.findAll
findAll(impl, us) ==
  [i \in 1..Len(us) |->
     IF impl = "part_011" THEN WithoutPassword(us[i]) ELSE WholeUser(us[i])]

\* Mutant of updateRole: the role is written to every user
updateRoleEveryUser(us, id, role) ==
  IF \E i \in 1..Len(us) : us[i].id = id
  THEN [i \in 1..Len(us) |-> [us[i] EXCEPT !.role = role]]
  ELSE us

\* UsersService.updateRole: the users array afterwards
updateRole(us, id, role) ==
  [i \in 1..Len(us) |-> IF us[i].id = id THEN [us[i] EXCEPT !.role = role] ELSE us[i]]

\* UsersService.updateRole: what the route answers
updateRoleReply(impl, us, id, role) ==
  IF findById(us, id) = NoUser
  THEN IF impl = "part_011" THEN NotFound ELSE Reply(200, "", NoBody, NoCookie)
  ELSE LET u == UserOf(updateRole(us, id, role), id)
       IN Reply(200, "", IF impl = "part_011" THEN WithoutPassword(u) ELSE WholeUser(u),
                NoCookie)

\* The route's business action, entered after every guard returned true; the
\* :id and the role of the body are read here
Handler(p) ==
  /\ pc[p] = "handler"
  /\ CASE req[p].route = "logout" ->
            /\ sessions' = deleteById(sessions, req[p].cookie)
            /\ loggedOut' = loggedOut \cup {req[p].cookie}
            /\ users' = users
            /\ Finish(p, LogoutSuccessful)
       [] req[p].route = "me" ->
            /\ Finish(p, Reply(200, "", Body(UserOf(users, req[p].user)), NoCookie))
            /\ UNCHANGED <<sessions, users, loggedOut>>
       [] req[p].route = "admin_users" ->
            /\ Finish(p, [Reply(200, "", NoBody, NoCookie)
                            EXCEPT !.list = findAll(usersImpl, users)])
            /\ UNCHANGED <<sessions, users, loggedOut>>
       [] req[p].route = "admin_role" ->
            \E id \in ParamIds, role \in UserRole :
              /\ users' = updateRole(users, id, role)
              /\ req' = [req EXCEPT ![p].id = id, ![p].newRole = role,
                                    ![p].res = updateRoleReply(usersImpl, users, id, role)]
              /\ pc' = [pc EXCEPT ![p] = "done"]
              /\ UNCHANGED <<sessions, loggedOut>>
  /\ UNCHANGED <<usersImpl, userIdCounter, now, nextUuid, started, cookies,
                 superseded>>

\* Time passes
Tick ==
  /\ now < MaxTime
  /\ now' = now + 1
  /\ UNCHANGED <<loggedOut, usersImpl, users, userIdCounter, sessions, nextUuid, started,
                 cookies, superseded, pc, req>>

----------------------------------------------------------------------------
(* Specifications                                                          *)

Start(p) ==
  \/ \E email \in Emails : StartRegister(p, email)
  \/ \E email \in Emails : StartLogin(p, email)
  \/ \E route \in GuardedRoutes, cookie \in CookieValues : StartGuarded(p, route, cookie)

Step(p) ==
  \/ Register_existing(p)
  \/ UsersService_create(p)
  \/ AuthService_login(p)
  \/ AuthService_login_verified(p)
  \/ createSession_delete(p)
  \/ createSession_save(p)
  \/ getSession_findOne(p)
  \/ getSession_purge(p)
  \/ AuthGuard_canActivate(p)
  \/ RolesGuard_canActivate(p)
  \/ Handler(p)

\* No request is being served
Quiet == \A p \in Procs : pc[p] \in {"idle", "done"}

\* A clock tick is a day: overlapping requests are served within one tick
TickQuiet == Quiet /\ Tick

\* Requests are handled in parallel
Next == (\E p \in Procs : Start(p) \/ Step(p)) \/ TickQuiet

Spec == Init /\ [][Next]_vars

\* Requests do not overlap: one slot serves them one after the other, and the
\* clock may tick between any two steps
SeqNext == Start("req1") \/ Step("req1") \/ Tick

SeqSpec == Init /\ [][SeqNext]_vars

----------------------------------------------------------------------------
(* One guarded request on an arbitrary store.  The sessions table is in    *)
(* the database and outlives the process, while UsersService.users is      *)
(* rebuilt by the process: a row of the table may name a user the array    *)
(* does not hold.  The 'roles' metadata is an input of RolesGuard: any     *)
(* array of roles, or none.                                                *)

\* The users arrays UsersService.create can have built, roles as updateRole
\* can have left them
UnitUsers ==
  UNION {{[i \in 1..n |-> [id |-> i,
                           email |-> IF i = 1 THEN "a@x.com" ELSE "b@x.com",
                           password |-> bcryptHash("secret1", "saltA"),
                           role |-> roles[i],
                           createdAt |-> 0]] :
            roles \in [1..n -> UserRole]} : n \in 0..MaxUnitUsers}

\* The rows createSession can have saved under sessionId id at time t
UnitRows(id, t) ==
  {[id |-> id, userId |-> u, expiresAt |-> t + TTL, createdAt |-> t] :
     u \in 1..MaxUnitUsers}

\* The tables createSession can have left: no row, a row saved at time 0, a
\* row saved at time 1, or both
UnitSessions ==
  {r1 \cup r2 : r1 \in {{}} \cup {{r} : r \in UnitRows(1, 0)},
                r2 \in {{}} \cup {{r} : r \in UnitRows(2, 1)}}

\* What reflector.get('roles', handler) can return: undefined, or the array
\* Roles(...roles) has set
RolesMetadata == {<<>>} \cup {<<R>> : R \in SUBSET UserRole}

UnitInit ==
  /\ usersImpl \in Impls
  /\ users \in UnitUsers
  /\ userIdCounter = Len(users) + 1
  /\ sessions \in UnitSessions
  /\ now \in 0..MaxTime
  /\ nextUuid = 3
  /\ started = MaxRequests
  /\ cookies = {1, 2}
  /\ superseded = {}
  /\ loggedOut = {}
  /\ \E entry \in {"ag_find", "sg"}, route \in GuardedRoutes,
        cookie \in {1, ForgedSessionId}, metadata \in RolesMetadata :
       /\ route \notin AdminRoutes => metadata = <<>>
       /\ entry = "sg" => route = "me"
       /\ pc = [p \in Procs |-> IF p = "req1" THEN entry ELSE "idle"]
       /\ req = [p \in Procs |->
                   IF p = "req1"
                   THEN [Idle EXCEPT !.route = route, !.cookie = cookie,
                                     !.requiredRoles = metadata]
                   ELSE Idle]

\* What guards/auth.guard.ts decides, given request.session?.id and the value
\* of its call of getSession: NoRes when it returns true
SyncGuardOutcome(sessionId, sessionData) ==
  IF sessionId = NoCookie THEN NoSession
  ELSE IF Falsy(sessionData) THEN InvalidSession
  ELSE NoRes

\* The table when the getSession a caller did not await has run: the row it
\* found expired is deleted
Unawaited(ss, sessionId, t) ==
  IF findOne(ss, sessionId) # {} /\ getSession(ss, sessionId, t) = {}
  THEN PurgeExpired(ss, sessionId)
  ELSE ss

\* AuthGuard.canActivate of guards/auth.guard.ts, which is synchronous: it
\* reads request.session?.id (set by a session middleware, if one is
\* installed) and calls the async SessionService.getSession without await
guards_AuthGuard_canActivate(p) ==
  /\ pc[p] = "sg"
  /\ \E sessionId \in {NoCookie, req[p].cookie} :
       LET out == SyncGuardOutcome(sessionId,
                                   Promise(getSession(sessions, sessionId, now)))
       IN /\ req' = [req EXCEPT ![p].sessionId = sessionId, ![p].res = out]
          /\ pc' = [pc EXCEPT ![p] = IF out = NoRes THEN "sg_accepted" ELSE "done"]
          /\ sessions' = IF sessionId = NoCookie THEN sessions
                         ELSE Unawaited(sessions, sessionId, now)
  /\ UNCHANGED <<loggedOut, usersImpl, users, userIdCounter, now, nextUuid,
                 started, cookies, superseded>>

\* SessionService.cleanupExpiredSessions, called once by a job outside the
\* requests
cleanupExpiredSessions(p) ==
  /\ pc[p] = "idle"
  /\ sessions' = deleteExpired(sessions, now)
  /\ req' = [req EXCEPT ![p].route = "cleanupExpiredSessions"]
  /\ pc' = [pc EXCEPT ![p] = "done"]
  /\ UNCHANGED <<loggedOut, usersImpl, users, userIdCounter, now, nextUuid,
                 started, cookies, superseded>>

UnitNext ==
  \/ getSession_findOne("req1")
  \/ getSession_purge("req1")
  \/ AuthGuard_canActivate("req1")
  \/ RolesGuard_canActivate("req1")
  \/ Handler("req1")
  \/ guards_AuthGuard_canActivate("req1")
  \/ cleanupExpiredSessions("req2")

UnitSpec == UnitInit /\ [][UnitNext]_vars

----------------------------------------------------------------------------
(* Properties                                                              *)

\* The token resolves: validateSession returns a user
Resolves(tok) == validateSession(sessions, users, tok, now) # NoUser

\* The tokens that resolve to the user
LiveTokens(userId) ==
  {s.id : s \in {x \in sessions : validateSession(sessions, users, x.id, now) = userId}}

\* C1: with non-overlapping requests at most one token resolves to each
\* identity, and a token superseded by a later login never resolves again.
C1_SingleSession ==
  /\ \A u \in UserIds(users) : Cardinality(LiveTokens(u)) <= 1
  /\ \A tok \in superseded : ~Resolves(tok)

\* C1 witness: a login has superseded a token and its new token resolves.
C1_Witness ==
  /\ superseded # {}
  /\ \E u \in UserIds(users) : Cardinality(LiveTokens(u)) = 1
  /\ pc["req1"] = "done"

\* C2: once overlapping logins of one identity have completed, no identity is
\* left with two live sessions.
C2_OverlappingLogins ==
  Quiet => \A u \in UserIds(users) : Cardinality(LiveTokens(u)) <= 1

\* C3: the first identity created is privileged at creation, every later one
\* is standard at creation; after the first registration exactly one identity
\* is privileged.
C3_Bootstrap ==
  [][Len(users') = Len(users) + 1 =>
       /\ users'[Len(users')].role = IF Len(users) = 0 THEN ADMIN ELSE USER
       /\ Len(users') = 1 =>
            Cardinality({i \in 1..Len(users') : users'[i].role = ADMIN}) = 1]_vars

\* C3 witness: a second registration has created its identity and logged in.
C3_Witness ==
  /\ Len(users) = 2
  /\ users[1].role = ADMIN
  /\ users[2].role = USER
  /\ pc["req1"] = "done"
  /\ req["req1"].route = "register"
  /\ req["req1"].created = 2

\* C4: two registrations with different handles, concurrent on an empty store,
\* give exactly one privileged identity.
C4_ConcurrentBootstrap ==
  (Len(users) >= 2 /\ users[1].email # users[2].email) =>
    Cardinality({k \in {1, 2} : users[k].role = ADMIN}) = 1

\* C5: no two identities of the credential store share a credentialHandle.
C5_HandleUniqueness ==
  \A i, j \in 1..Len(users) : i # j => users[i].email # users[j].email

\* The request of slot p passed AuthGuard as the identity of role r.
AuthenticatedAs(p, r) ==
  /\ req[p].route \in GuardedRoutes
  /\ req[p].user # NoUser
  /\ UserOf(users, req[p].user).role = r

\* C6: a request to an admin route whose token resolves to a privileged
\* identity passes AuthGuard and RolesGuard and is answered by the handler.
C6_AdminGranted ==
  \A p \in Procs :
    (pc[p] = "done" /\ req[p].route \in AdminRoutes /\ AuthenticatedAs(p, ADMIN))
      => req[p].res.status = 200

\* C7: GET /admin/users with a token that resolves to a standard identity is
\* rejected with Insufficient permissions and with no other reason.
C7_UserDenied ==
  \A p \in Procs :
    (pc[p] = "done" /\ req[p].route = "admin_users" /\ AuthenticatedAs(p, USER))
      => req[p].res = InsufficientPermissions

\* C8: a session with expiry t0 + TTL resolves at every time before t0 + TTL
\* and is absent at every time from t0 + TTL on, t0 + TTL included.
C8_Expiration ==
  \A s \in sessions :
    /\ now < s.expiresAt => validateSession(sessions, users, s.id, now) = s.userId
    /\ now >= s.expiresAt => validateSession(sessions, users, s.id, now) = NoUser

\* AuthService.login is about to reject the request of slot p
UnknownHandle(p) == pc[p] = "login_check" /\ req[p].user = NoUser
WrongSecret(p) ==
  /\ pc[p] = "login_verify"
  /\ req[p].user # NoUser
  /\ ~bcryptCompare(req[p].password, UserOf(users, req[p].user).password)

\* C9: login with an unknown handle and login with a wrong secret fail with
\* the same response, Invalid credentials, and neither creates a session.
C9_NegativeAuth ==
  [][\A p \in Procs :
       ((UnknownHandle(p) \/ WrongSecret(p)) /\ pc'[p] # pc[p]) =>
         /\ pc'[p] = "done"
         /\ req'[p].res = InvalidCredentials
         /\ sessions' = sessions
         /\ cookies' = cookies
         /\ nextUuid' = nextUuid]_vars

\* C9 witness: a login with a known handle and a wrong secret has failed
\* while a session of that identity exists.
C9_Witness ==
  /\ pc["req1"] = "done"
  /\ req["req1"].route = "login"
  /\ req["req1"].user # NoUser
  /\ req["req1"].res = InvalidCredentials
  /\ \E s \in sessions : s.userId = req["req1"].user

\* C10: no cookie is rejected with No session found; a token that does not
\* resolve is rejected with Invalid session; only a token that resolves has
\* its identity attached and passes AuthGuard.
C10_AuthGuardOutcomes ==
  [][\A p \in Procs :
       /\ (req'[p].route \in GuardedRoutes /\ req'[p].cookie = NoCookie) =>
            (pc'[p] = "done" /\ req'[p].res = NoSession)
       /\ (pc[p] = "ag_find" /\ pc'[p] # pc[p]) =>
            IF Resolves(req[p].cookie)
            THEN /\ pc'[p] = "ag_user"
                 /\ req'[p].user = validateSession(sessions, users, req[p].cookie, now)
            ELSE \/ pc'[p] = "ag_purge"
                 \/ pc'[p] = "done" /\ req'[p].res = InvalidSession
       /\ (pc[p] = "ag_purge" /\ pc'[p] # pc[p]) =>
            (pc'[p] = "done" /\ req'[p].res = InvalidSession)
       /\ (pc'[p] \in {"rg", "handler"} /\ pc[p] \notin {"rg", "handler"}) =>
            /\ pc[p] = "ag_user"
            /\ req[p].user # NoUser
            /\ req'[p].user = req[p].user]_vars

\* C10 witness: a token that a response had set and that has no row any more
\* has been rejected with Invalid session.
C10_Witness ==
  /\ pc["req1"] = "done"
  /\ req["req1"].route \in GuardedRoutes
  /\ req["req1"].res = InvalidSession
  /\ req["req1"].cookie \in cookies
  /\ \A s \in sessions : s.id # req["req1"].cookie

\* C11: the RolesGuard runs only after the AuthGuard has attached a user; the
\* handler runs only after the last guard declared on its route has returned
\* true, and a request that was rejected runs neither a guard nor the handler.
C11_GuardOrdering ==
  [][\A p \in Procs :
       /\ (pc'[p] = "rg" /\ pc[p] # "rg") =>
            /\ pc[p] = "ag_user"
            /\ req[p].user # NoUser
            /\ req[p].route \in AdminRoutes
       /\ (pc'[p] = "handler" /\ pc[p] # "handler") =>
            \/ /\ pc[p] = "ag_user"
               /\ req[p].user # NoUser
               /\ req[p].route \in GuardedRoutes \ AdminRoutes
            \/ /\ pc[p] = "rg"
               /\ req[p].route \in AdminRoutes
               /\ req[p].res = NoRes
       /\ (pc[p] = "done" /\ pc'[p] # "done") =>
            /\ pc'[p] \notin {"ag_user", "rg", "handler"}
            /\ req'[p].res = NoRes
       /\ (req[p].res # NoRes /\ pc'[p] # pc[p]) => pc[p] = "done"]_vars

\* C11 witness: on an admin route the AuthGuard has attached the user and the
\* RolesGuard is the next to run.
C11_Witness ==
  /\ pc["req1"] = "rg"
  /\ req["req1"].route \in AdminRoutes
  /\ req["req1"].user \in UserIds(users)
  /\ req["req1"].res = NoRes

\* C12: with no roles declared, or with an empty array of roles declared, the
\* RolesGuard passes every authenticated identity; with a non-empty array it
\* passes exactly the identities whose role is in it and rejects the others
\* with Insufficient permissions.
C12_RolePassThrough ==
  [][\A p \in Procs :
       (pc[p] = "rg" /\ pc'[p] # "rg") =>
         LET R == req[p].requiredRoles
         IN IF R = <<>> \/ R = <<{}>>
            THEN pc'[p] = "handler"
            ELSE IF UserOf(users, req[p].user).role \in R[1]
            THEN pc'[p] = "handler"
            ELSE pc'[p] = "done" /\ req'[p].res = InsufficientPermissions]_vars

\* A step of the AuthGuard or of the RolesGuard of the request of slot p
GuardStep(p) ==
  \/ pc[p] \in {"ag_find", "ag_purge", "ag_user", "rg"} /\ pc'[p] # pc[p]
  \/ /\ pc[p] \in {"idle", "done"}
     /\ req'[p] # req[p]
     /\ req'[p].route \in GuardedRoutes

\* C13 as stated: no step of a guard changes the sessions table or the users.
C13_GuardsReadOnly ==
  [][\A p \in Procs :
       GuardStep(p) => (sessions' = sessions /\ users' = users)]_vars

\* C13 amended: no step of a guard changes the users, and the only change a
\* guard makes to the sessions table is to delete the expired row of the
\* token the request presented.
C13_GuardsPurgeOnly ==
  [][\A p \in Procs :
       GuardStep(p) =>
         /\ users' = users
         /\ userIdCounter' = userIdCounter
         /\ \/ sessions' = sessions
            \/ /\ pc[p] = "ag_purge"
               /\ sessions' = {s \in sessions : s.id # req[p].cookie}
               /\ \A s \in sessions \ sessions' : s.expiresAt < now]_vars

\* C13 witness: the AuthGuard has deleted the expired row of the presented
\* token and has left the row of another session in the table.
C13_Witness ==
  /\ pc["req1"] = "done"
  /\ req["req1"].route \in GuardedRoutes
  /\ req["req1"].res = InvalidSession
  /\ req["req1"].cookie \in cookies \ (superseded \cup loggedOut)
  /\ \A s \in sessions : s.id # req["req1"].cookie
  /\ sessions # {}

\* C14: a logout with a token an earlier logout has already answered with
\* success is answered with the same success, and the token has no session.
C14_IdempotentLogout ==
  \A p \in Procs :
    (pc[p] = "done" /\ req[p].route = "logout" /\ req[p].cookie \in loggedOut) =>
      /\ req[p].res = LogoutSuccessful
      /\ \A s \in sessions : s.id # req[p].cookie

\* The secret the request of slot p sends is the secret of the identity
\* registered with the handle it sends
RegisteredSecret(p, password) ==
  /\ findByEmail(users, req[p].email) # NoUser
  /\ bcryptCompare(password,
                   UserOf(users, findByEmail(users, req[p].email)).password)

\* C15: a registration, and a login with the handle and secret of a registered
\* identity, answered within the session's first tick, succeeds: the response
\* carries the id and handle of that identity and a token that resolves to it.
C15_RoundTrip ==
  [][\A p \in Procs :
       /\ (pc[p] = "login_verify" /\ pc'[p] # pc[p]
             /\ RegisteredSecret(p, req[p].password)) => pc'[p] = "cs_delete"
       /\ (pc[p] = "cs_insert" /\ pc'[p] # pc[p] /\ now < req[p].expiresAt) =>
            LET u == findByEmail(users, req[p].email)
            IN /\ pc'[p] = "done"
               /\ req'[p].res.status = 201
               /\ req'[p].res.body.id = u
               /\ req'[p].res.body.email = req[p].email
               /\ req[p].route = "register" => req'[p].res.body.id = req[p].created
               /\ {s.userId : s \in {x \in sessions' : x.id = req'[p].res.cookie
                                                        /\ ~(x.expiresAt < now')}}
                    = {u}]_vars

\* C15 witness: after a registration, a login with the same handle and secret
\* has answered with the identity and a token that resolves to it.
C15_Witness ==
  /\ pc["req1"] = "done"
  /\ req["req1"].route = "login"
  /\ req["req1"].res.status = 201
  /\ req["req1"].res.body.id = findByEmail(users, req["req1"].email)
  /\ validateSession(sessions, users, req["req1"].res.cookie, now)
       = req["req1"].res.body.id

\* C16: with a registered first and b second, a's PATCH /admin/users/:id/role
\* is answered by the handler, and a GET /admin/users of b, once privileged,
\* is answered by the handler.
C16_Promotion ==
  \A p \in Procs :
    (/\ pc[p] = "done"
     /\ Len(users) >= 2
     /\ req[p].route \in AdminRoutes
     /\ req[p].user \in {users[1].id, users[2].id}
     /\ UserOf(users, req[p].user).role = ADMIN
     /\ req[p].route = "admin_role" => req[p].user = users[1].id
     /\ req[p].route = "admin_users" => req[p].user = users[2].id)
      => req[p].res.status = 200

\* C17: every change of a user's role is made by the handler of PATCH
\* /admin/users/:id/role for a request whose user is privileged at that step.
C17_RoleMutationAuthority ==
  [][\A i \in 1..Len(users) :
       (i <= Len(users') /\ users'[i].role # users[i].role) =>
         \E p \in Procs :
           /\ pc[p] = "handler" /\ pc'[p] = "done"
           /\ req[p].route = "admin_role"
           /\ req[p].user \in UserIds(users)
           /\ UserOf(users, req[p].user).role = ADMIN]_vars

\* C18: a registration whose handle findByEmail finds is answered with the
\* 409 Email already exists, and the users are left as they were.
C18_DuplicateRegistration ==
  [][\A p \in Procs :
       /\ (pc[p] \in {"idle", "done"} /\ req'[p] # req[p]
             /\ req'[p].route = "register"
             /\ findByEmail(users, req'[p].email) # NoUser) =>
            /\ pc'[p] = "reg_check"
            /\ req'[p].user = findByEmail(users, req'[p].email)
            /\ users' = users
       /\ (pc[p] = "reg_check" /\ pc'[p] # pc[p] /\ req[p].user # NoUser) =>
            /\ pc'[p] = "done"
            /\ req'[p].res = EmailExists
            /\ users' = users
            /\ userIdCounter' = userIdCounter]_vars

\* C18 witness: a registration with the handle of an existing identity has
\* been answered with the conflict.
C18_Witness ==
  /\ pc["req1"] = "done"
  /\ req["req1"].route = "register"
  /\ req["req1"].res = EmailExists
  /\ \E i \in 1..Len(users) : users[i].email = req["req1"].email

\* The rows of the token the request presents that getSession returns
LiveRows(p) == {s \in sessions : s.id = req[p].cookie /\ ~(s.expiresAt < now)}

\* C19: validateSession returns a user only if getSession returns a row for
\* the token and the users hold the userId of that row, and then it returns
\* that user; it returns null if either lookup misses.
C19_ResolveSession ==
  [][\A p \in Procs :
       (pc[p] = "ag_find" /\ pc'[p] # pc[p]) =>
         IF LiveRows(p) = {}
         THEN pc'[p] \in {"ag_purge", "done"} /\ req'[p].user = NoUser
         ELSE /\ pc'[p] = "ag_user"
              /\ \A s \in LiveRows(p) :
                   req'[p].user = IF \E i \in 1..Len(users) : users[i].id = s.userId
                                  THEN s.userId ELSE NoUser]_vars

\* C19 witness: the token has a live row, the users do not hold its userId,
\* and the request has been rejected with Invalid session.
C19_Witness ==
  /\ pc["req1"] = "done"
  /\ req["req1"].res = InvalidSession
  /\ LiveRows("req1") # {}
  /\ \A s \in LiveRows("req1") : s.userId \notin UserIds(users)

\* C20: updateRole with an id no user has fails with NotFound and leaves the
\* role of every user as it was.
C20_UpdateRoleNotFound ==
  [][\A p \in Procs :
       (pc[p] = "handler" /\ req[p].route = "admin_role" /\ pc'[p] = "done"
          /\ req'[p].id \notin UserIds(users)) =>
         /\ req'[p].res = NotFound
         /\ users' = users]_vars

\* The users that hold the role admin
Admins(us) == {i \in 1..Len(us) : us[i].role = ADMIN}

\* C21: the request of the only privileged identity to set its own role to
\* standard reaches updateRole and succeeds, leaving no privileged identity;
\* with no privileged identity the RolesGuard of an admin route passes nobody.
C21_SelfDemotion ==
  [][\A p \in Procs :
       /\ (/\ pc[p] = "rg" /\ pc'[p] # pc[p]
           /\ req[p].route = "admin_role"
           /\ req[p].user \in UserIds(users)
           /\ UserOf(users, req[p].user).role = ADMIN
           /\ Cardinality(Admins(users)) = 1) => pc'[p] = "handler"
       /\ (/\ pc[p] = "handler" /\ pc'[p] # pc[p]
           /\ req[p].route = "admin_role"
           /\ Cardinality(Admins(users)) = 1
           /\ req'[p].id = req[p].user
           /\ req'[p].newRole = USER
           /\ UserOf(users, req[p].user).role = ADMIN) =>
            (req'[p].res.status = 200 /\ Admins(users') = {})
       /\ (/\ pc[p] = "rg" /\ pc'[p] # pc[p]
           /\ req[p].requiredRoles = <<{ADMIN}>>
           /\ Admins(users) = {}) => pc'[p] = "done"]_vars

\* C22: the user AuthService.login returns, and the body of every response,
\* carry no password hash.
C22_NoSecretLeaves ==
  \A p \in Procs :
    /\ req[p].loginUser.password = NoHash
    /\ req[p].res.body.password = NoHash
    /\ \A k \in 1..Len(req[p].res.list) : req[p].res.list[k].password = NoHash

\* C23: the sessions table gains a row only by a login request, and the
\* response of a registration sets no session cookie.
C23_SessionsOnlyFromLogin ==
  [][/\ (sessions' \ sessions # {}) =>
          \E p \in Procs : req[p].route = "login" /\ pc[p] = "cs_insert"
     /\ \A p \in Procs :
          req'[p].route = "register" => req'[p].res.cookie = NoCookie]_vars

\* C24: a token a logout has answered with success has no row and never
\* resolves again, and a token createSession issues was never issued before.
C24_LogoutIsFinal ==
  [][/\ \A tok \in loggedOut' :
          /\ \A s \in sessions' : s.id # tok
          /\ {s \in sessions' : s.id = tok /\ ~(s.expiresAt < now')} = {}
     /\ \A p \in Procs :
          req'[p].sessionId \notin {req[p].sessionId, NoCookie} =>
            req'[p].sessionId \notin
              (cookies \cup superseded \cup loggedOut
                 \cup {s.id : s \in sessions} \cup {req[q].sessionId : q \in Procs})]_vars

\* C24 witness: after a logout has destroyed a token, a login has issued and
\* saved another token.
C24_Witness ==
  /\ loggedOut # {}
  /\ pc["req1"] = "done"
  /\ req["req1"].route = "login"
  /\ req["req1"].res.status = 201
  /\ req["req1"].res.cookie \notin loggedOut
  /\ \E s \in sessions : s.id = req["req1"].res.cookie

\* C25: no step removes a user or lowers users.length, and no step changes
\* the id, email, password hash or createdAt of a user.
C25_IdentitiesImmutable ==
  [][/\ Len(users') >= Len(users)
     /\ UserIds(users) \subseteq UserIds(users')
     /\ \A i \in 1..Len(users) :
          /\ i <= Len(users')
          /\ users'[i].id = users[i].id
          /\ users'[i].email = users[i].email
          /\ users'[i].password = users[i].password
          /\ users'[i].createdAt = users[i].createdAt]_vars

\* C25 witness: with two users created, a logout of one of them has been
\* answered.
C25_Witness ==
  /\ Len(users) = 2
  /\ pc["req1"] = "done"
  /\ req["req1"].route = "logout"
  /\ req["req1"].res = LogoutSuccessful

\* C26: when getSession finds the row of the token and its expiresAt is before
\* the time of the read, the row is deleted and null is returned: the request
\* is rejected and the row is gone.
C26_EagerPurge ==
  [][\A p \in Procs :
       /\ (/\ pc[p] = "ag_find" /\ pc'[p] # pc[p]
           /\ \E s \in sessions : s.id = req[p].cookie /\ s.expiresAt < now) =>
            (pc'[p] = "ag_purge" /\ req'[p].user = NoUser)
       /\ (pc[p] = "ag_purge" /\ pc'[p] # pc[p]) =>
            /\ pc'[p] = "done"
            /\ req'[p].res = InvalidSession
            /\ \A s \in sessions' : s.id # req[p].cookie]_vars

\* C26 witness: GET /me with a token whose session had expired has been
\* rejected, and the row of the token is gone.
C26_Witness ==
  /\ pc["req1"] = "done"
  /\ req["req1"].route = "me"
  /\ req["req1"].res = InvalidSession
  /\ req["req1"].cookie \in cookies \ (superseded \cup loggedOut)
  /\ \A s \in sessions : s.id # req["req1"].cookie

\* C27: every row of the sessions table has expiresAt = createdAt + TTL.
C27_ExpiryFromCreation ==
  \A s \in sessions : s.expiresAt = s.createdAt + TTL

\* C28: updateRole with the id of a user writes the role of that user and
\* nothing else: the other users and the sessions table are as before, and
\* every token resolves as before.
C28_UpdateRoleFrame ==
  [][\A p \in Procs :
       (/\ pc[p] = "handler" /\ pc'[p] = "done"
        /\ req[p].route = "admin_role"
        /\ req'[p].id \in UserIds(users)) =>
         /\ Len(users') = Len(users)
         /\ \A i \in 1..Len(users) :
              users'[i] = IF users[i].id = req'[p].id
                          THEN [users[i] EXCEPT !.role = req'[p].newRole]
                          ELSE users[i]
         /\ sessions' = sessions
         /\ \A s \in sessions :
              validateSession(sessions', users', s.id, now')
                = validateSession(sessions, users, s.id, now)]_vars

\* C28 witness: updateRole has written the role of the second of two users,
\* whose session is still live.
C28_Witness ==
  /\ pc["req1"] = "done"
  /\ req["req1"].route = "admin_role"
  /\ Len(users) = 2
  /\ req["req1"].id = 2
  /\ users[2].role = req["req1"].newRole
  /\ users[1].role # users[2].role
  /\ \E s \in sessions :
       s.userId = 2 /\ validateSession(sessions, users, s.id, now) = 2

\* C29: on a route that requires admin, the RolesGuard decides on the role
\* the user has in the users array when the request is made: it passes a
\* user that is admin now and rejects a user that is not, whatever the role
\* was when the session was created.
C29_RoleAtRequestTime ==
  [][\A p \in Procs :
       (/\ pc[p] = "rg" /\ pc'[p] # pc[p]
        /\ req[p].requiredRoles = <<{ADMIN}>>
        /\ req[p].user \in UserIds(users)) =>
         IF UserOf(users, req[p].user).role = ADMIN
         THEN pc'[p] = "handler"
         ELSE pc'[p] = "done" /\ req'[p].res = InsufficientPermissions]_vars

\* The login of slot p has an unknown handle or a wrong secret
FailingLogin(p) ==
  /\ req[p].route = "login"
  /\ pc[p] \in {"login_check", "login_verify", "cs_delete", "cs_insert"}
  /\ \/ req[p].user = NoUser
     \/ /\ req[p].password # ""
        /\ ~bcryptCompare(req[p].password, UserOf(users, req[p].user).password)

\* C30: no step of a login with an unknown handle or a wrong secret changes
\* the sessions table, and every token resolves after it as before.
C30_FailedLoginFrame ==
  [][\A p \in Procs :
       (FailingLogin(p) /\ pc'[p] # pc[p]) =>
         /\ sessions' = sessions
         /\ \A s \in sessions :
              validateSession(sessions', users', s.id, now')
                = validateSession(sessions, users, s.id, now)]_vars

\* C30 witness: a login with a wrong secret has failed and the session the
\* identity held still resolves.
C30_Witness ==
  /\ pc["req1"] = "done"
  /\ req["req1"].route = "login"
  /\ req["req1"].res = InvalidCredentials
  /\ req["req1"].user # NoUser
  /\ Cardinality(LiveTokens(req["req1"].user)) = 1

\* C31: createSession removes rows of its userId only and adds its row only,
\* and the logout handler removes the row of its token only: every other row
\* stays in the table.
C31_OwnTargetOnly ==
  [][\A p \in Procs :
       /\ (pc[p] = "cs_delete" /\ pc'[p] # pc[p]) =>
            /\ sessions' \subseteq sessions
            /\ \A s \in sessions : s.userId # req[p].user => s \in sessions'
       /\ (pc[p] = "cs_insert" /\ pc'[p] # pc[p]) =>
            /\ sessions \subseteq sessions'
            /\ \A s \in sessions' \ sessions : s.userId = req[p].user
       /\ (pc[p] = "handler" /\ pc'[p] # pc[p] /\ req[p].route = "logout") =>
            /\ sessions' \subseteq sessions
            /\ \A s \in sessions : s.id # req[p].cookie => s \in sessions']_vars

\* C31 witness: a login of one of two users has superseded that user's token
\* while the token of the other user still resolves.
C31_Witness ==
  /\ Len(users) = 2
  /\ pc["req1"] = "done"
  /\ req["req1"].route = "login"
  /\ req["req1"].res.status = 201
  /\ superseded # {}
  /\ \E s \in sessions : s.userId # req["req1"].user /\ Resolves(s.id)

\* C32: a row is saved under a fresh token for the user of the login that is
\* answered with that token; no step changes the userId of a row; and the
\* AuthGuard attaches to a request the user of the row of its token, or none.
C32_TokenBinding ==
  [][/\ \A s \in sessions, t \in sessions' : s.id = t.id => s.userId = t.userId
     /\ \A p \in Procs :
          /\ (pc[p] = "cs_insert" /\ pc'[p] # pc[p]) =>
               \A s \in sessions' \ sessions :
                 /\ s.id \notin (cookies \cup superseded \cup loggedOut)
                 /\ s.userId = req[p].user
                 /\ req'[p].res.cookie = s.id
                 /\ req'[p].res.body.id = s.userId
          /\ (pc[p] = "ag_find" /\ pc'[p] = "ag_user") =>
               req'[p].user \in
                 {NoUser} \cup {s.userId : s \in {x \in sessions : x.id = req[p].cookie}}
          /\ (pc[p] = "handler" /\ pc'[p] # pc[p] /\ req[p].route = "me") =>
               req'[p].res.body.id = req[p].user]_vars

\* C32 witness: with two users registered, GET /me with the token of the
\* second has answered with the second user.
C32_Witness ==
  /\ Len(users) = 2
  /\ pc["req1"] = "done"
  /\ req["req1"].route = "me"
  /\ req["req1"].res.status = 200
  /\ req["req1"].res.body.id = 2
  /\ \E s \in sessions : s.id = req["req1"].cookie /\ s.userId = 2

\* C33: a request whose token has a live row passes getSession without any
\* write to the sessions table: the row keeps its expiresAt.
C33_ResolveReadOnly ==
  [][\A p \in Procs :
       /\ (pc[p] = "ag_find" /\ pc'[p] # pc[p] /\ LiveRows(p) # {}) =>
            (pc'[p] = "ag_user" /\ sessions' = sessions)
       /\ (pc[p] = "ag_user" /\ pc'[p] # pc[p]) => sessions' = sessions
       /\ (pc[p] = "handler" /\ pc'[p] # pc[p] /\ req[p].route = "me") =>
            sessions' = sessions]_vars

\* C33 witness: GET /me has resolved a token at the last instant its row is
\* live, and the row is in the table with that expiresAt.
C33_Witness ==
  /\ pc["req1"] = "done"
  /\ req["req1"].route = "me"
  /\ req["req1"].res.status = 200
  /\ now > 0
  /\ \E s \in sessions : s.id = req["req1"].cookie /\ s.expiresAt = now

\* The rows getSession returns for the token at time t
LiveAt(ss, tok, t) == {s \in ss : s.id = tok /\ ~(s.expiresAt < t)}

\* C34: cleanupExpiredSessions removes the rows getSession treats as expired
\* at that instant and no other row, so getSession returns for every token
\* what it returned before.
C34_CleanupEquivalence ==
  [][\A p \in Procs :
       (req'[p].route = "cleanupExpiredSessions" /\ pc[p] = "idle" /\ pc'[p] = "done") =>
         /\ sessions' \subseteq sessions
         /\ sessions \ sessions' = {s \in sessions : s.expiresAt < now}
         /\ \A tok \in cookies \cup {ForgedSessionId} :
              LiveAt(sessions', tok, now') = LiveAt(sessions, tok, now)]_vars

\* C34 witness: cleanupExpiredSessions has run at the instant a row expires,
\* and that row is still in the table while no older row is.
C34_Witness ==
  /\ pc["req2"] = "done"
  /\ req["req2"].route = "cleanupExpiredSessions"
  /\ \E s \in sessions : s.expiresAt = now
  /\ \A s \in sessions : s.expiresAt >= now
  /\ now > TTL

\* C35: the guard of guards/auth.guard.ts rejects with Invalid session a
\* request whose session id has no live row, and accepts a request only if
\* its session id has one.
C35_SyncGuard ==
  [][\A p \in Procs :
       (pc[p] = "sg" /\ pc'[p] # pc[p] /\ req'[p].sessionId # NoCookie) =>
         IF LiveAt(sessions, req'[p].sessionId, now) = {}
         THEN pc'[p] = "done" /\ req'[p].res = InvalidSession
         ELSE pc'[p] = "sg_accepted"]_vars

====
